---- MODULE Spec2Model ----
(***************************************************************************)
(* The semantic memory index of the dashboard (lib/lancedb): documents are *)
(* embedded by the OpenAI provider, stored in one LanceDB table per scope  *)
(* ("memory_<scope>") and searched by vector distance.                     *)
(*                                                                         *)
(* Every exported async function is modelled as a call by a caller p that  *)
(* advances one await at a time; the store (the set of tables and their    *)
(* rows) is shared by all callers.                                         *)
(*                                                                         *)
(* Numbers: similarity scores and distances are in tenths (score 5 is the  *)
(* source's 0.5). Embedding vectors have two integer components in units   *)
(* of 1/sqrt(10), so that a vector of squared length 10 is a unit vector   *)
(* and the squared L2 distance of two vectors is their distance in tenths. *)
(* Strings that the code cuts or splices (contents, scope ids) are         *)
(* sequences of tokens; names that are only compared are TLA+ strings.     *)
(***************************************************************************)
EXTENDS Integers, Sequences, FiniteSets, TLC

VARIABLES
    openai,   \* TRUE iff the OpenAI client was built (OPENAI_API_KEY set)
    tables,   \* the LanceDB database: table name -> sequence of rows
    proc      \* per caller: the call in progress and its local variables

vars == <<openai, tables, proc>>

\* ------------------------------------------------------------------ bounds

\* Most rows a table may hold (the seed row included) before callers stop
\* indexing into it.
MaxRows == 3

\* Most documents handed to one indexDocuments call.
MaxBatch == 2

\* ------------------------------------------------------- program constants

DefaultLimit == 10

\* 0.5, in tenths
DefaultMinScore == 5

MaxEmbedChars == 32000

SnippetChars == 500

Procs == {"p1", "p2"}

\* scopes === 'all' expands to this list, in this order
AllScopes == <<"global", "project", "workspace", "cross">>

\* ------------------------------------------------------------ small helpers

Min(a, b) == IF a <= b THEN a ELSE b

Range(s) == {s[i] : i \in 1..Len(s)}

\* String.prototype.slice(0, n) on a token sequence
SliceFrom0(s, n) == SubSeq(s, 1, Min(Len(s), n))

\* JavaScript's null as a scope: only ever interpolated into a table name or
\* compared with 'all', so it is modelled by the string it interpolates to.
Null == "null"

\* `memory_${scope}`
TableName(scope) ==
    CASE scope = "global" -> "memory_global"
      [] scope = "project" -> "memory_project"
      [] scope = "workspace" -> "memory_workspace"
      [] scope = "cross" -> "memory_cross"
      [] scope = Null -> "memory_null"

\* tableName.replace('memory_', '')
ScopeOfTable(tableName) ==
    CASE tableName = "memory_global" -> "global"
      [] tableName = "memory_project" -> "project"
      [] tableName = "memory_workspace" -> "workspace"
      [] tableName = "memory_cross" -> "cross"
      [] tableName = "memory_null" -> Null

\* Connection.tableNames() lists the existing tables in lexical order.
LexicalTables ==
    <<"memory_cross", "memory_global", "memory_null", "memory_project", "memory_workspace">>

TableNames(tbls) == SelectSeq(LexicalTables, LAMBDA n : n \in DOMAIN tbls)

\* Seeded fault: dropping a table removes its last row only.
WithoutLastRow(f, k) == [f EXCEPT ![k] = SubSeq(@, 1, Len(@) - 1)]

\* f with key k removed / set
Without(f, k) == [x \in DOMAIN f \ {k} |-> f[x]]

With(f, k, v) == [x \in DOMAIN f \cup {k} |-> IF x = k THEN v ELSE f[x]]

\* ------------------------------------------------------ embedding provider

\* A text that fills the character budget of one input exactly.
FullBudget == [i \in 1..MaxEmbedChars |-> "x"]

\* The vector text-embedding-3-small returns for a text: a fixed unit vector
\* per text, equal texts giving equal vectors.
EmbeddingModel(text) ==
    CASE text = <<"a">> -> <<3, 1>>
      [] text = <<"b">> -> <<1, 3>>
      [] text = <<"c">> -> <<3, -1>>
      [] text = FullBudget -> <<-3, 1>>
      [] OTHER -> <<-1, -3>>

\* Seeded fault: the text is sent whole.
Untruncated(text) == text

\* text.slice(0, 32000)
Truncated(text) == SliceFrom0(text, MaxEmbedChars)

\* generateEmbedding / generateEmbeddings refuse to run without a client.
NotConfigured == ~openai

\* response.data[0].embedding of embeddings.create({input: truncated})
EmbedOne(text) == EmbeddingModel(Truncated(text))

\* response.data.map(d => d.embedding) for input texts.map(t => t.slice(0, 32000))
EmbedAll(texts) == [i \in 1..Len(texts) |-> EmbeddingModel(Truncated(texts[i]))]

\* ------------------------------------------------------------------ LanceDB

\* new Array(EMBEDDING_DIMENSIONS).fill(0)
ZeroVector == <<0, 0>>

\* The row createTable is given to infer the schema from.
SeedRow(scope) ==
    [id |-> "init", content |-> <<>>, scope |-> scope, scopeId |-> <<>>,
     vector |-> ZeroVector]

\* {...doc, vector}
Record(doc, vector) == [vector |-> vector] @@ doc

\* LanceDB's default metric: squared L2 distance.
Distance(u, v) == (u[1] - v[1]) * (u[1] - v[1]) + (u[2] - v[2]) * (u[2] - v[2])

\* The SQL filter `scopeId = '${scopeId}'`, as tokens.
WhereClause(scopeId) == <<"scopeId", "=", "'">> \o scopeId \o <<"'">>

\* Position of the first quote token at or after i (Len + 1 when none).
RECURSIVE NextQuote(_, _)
NextQuote(w, i) ==
    IF i > Len(w) THEN i
    ELSE IF w[i] = "'" THEN i
    ELSE NextQuote(w, i + 1)

\* Evaluation of a filter  scopeId = '<lit>' { OR scopeId = '<lit>' }  on a
\* row, from token i: "true", "false", or "error" when it does not parse.
\* A NULL scopeId (a row without the field) compares as not true.
RECURSIVE EvalWhere(_, _, _)
EvalWhere(w, i, row) ==
    IF i + 3 > Len(w) \/ w[i] # "scopeId" \/ w[i + 1] # "=" \/ w[i + 2] # "'"
    THEN "error"
    ELSE LET j == NextQuote(w, i + 3)
             lit == SubSeq(w, i + 3, j - 1)
             here == "scopeId" \in DOMAIN row /\ row.scopeId = lit
         IN  IF j > Len(w) THEN "error"
             ELSE IF j = Len(w) THEN (IF here THEN "true" ELSE "false")
             ELSE IF w[j + 1] # "OR" THEN "error"
             ELSE LET rest == EvalWhere(w, j + 2, row)
                  IN  IF rest = "error" THEN "error"
                      ELSE IF here \/ rest = "true" THEN "true" ELSE "false"

\* Insert hit h into a list kept in ascending distance, after equal distances.
RECURSIVE InsertByDistance(_, _)
InsertByDistance(h, sorted) ==
    IF sorted = <<>> THEN <<h>>
    ELSE IF h._distance < Head(sorted)._distance THEN <<h>> \o sorted
    ELSE <<Head(sorted)>> \o InsertByDistance(h, Tail(sorted))

\* Seeded fault: the hits are left in the order the rows are stored in.
InStoredOrder(hits) == hits

RECURSIVE NearestFirst(_)
NearestFirst(hits) ==
    IF hits = <<>> THEN <<>>
    ELSE InsertByDistance(hits[Len(hits)], NearestFirst(SubSeq(hits, 1, Len(hits) - 1)))

\* Whether the filter parses does not depend on the row it is applied to.
QueryFails(where) ==
    where # <<>> /\ EvalWhere(where[1], 1, SeedRow("global")) = "error"

\* table.vectorSearch(v).limit(k).where(f).toArray(): the k rows nearest to v
\* among those the filter keeps, each with its _distance. `where` is <<>> or
\* <<filter>>.
VectorSearch(rows, v, k, where) ==
    LET kept == SelectSeq(rows, LAMBDA r :
                    where = <<>> \/ EvalWhere(where[1], 1, r) = "true")
        hits == [i \in 1..Len(kept) |->
                    [_distance |-> Distance(v, kept[i].vector)] @@ kept[i]]
    IN  SliceFrom0(NearestFirst(hits), k)

\* ------------------------------------------------------------------ inputs

Kai ==
    [id |-> "kai:MEMORY.md", content |-> <<"a">>, scope |-> "workspace",
     scopeId |-> <<"kai">>]

Nova ==
    [id |-> "nova:MEMORY.md", content |-> <<"c">>, scope |-> "workspace",
     scopeId |-> <<"nova">>]

\* indexGlobal's documents carry no scopeId
Projects == [id |-> "global:PROJECTS.md", content |-> <<"b">>, scope |-> "global"]

Documents == {Kai, Nova, Projects}

Batches == UNION {[1..n -> Documents] : n \in 0..MaxBatch}

Queries == {<<"a">>, <<"b">>}

\* A scope id that closes the quote of the filter it is spliced into.
Spliced == <<"nova", "'", "OR", "scopeId", "=", "'", "kai">>

\* An optional field: <<>> when omitted, <<v>> when given.
Opt(key, given) == IF given = <<>> THEN <<>> ELSE key :> given[1]

SearchOptions ==
    {Opt("scope", sc) @@ Opt("scopeId", id) @@ Opt("limit", lim) @@ Opt("minScore", ms) :
        sc \in {<<>>, <<"global">>, <<"workspace">>},
        id \in {<<>>, <<<<>>>>, <<<<"kai">>>>, <<Spliced>>},
        lim \in {<<>>, <<1>>, <<2>>},
        ms \in {<<>>, <<-10>>, <<9>>}}

\* clearIndex's argument: <<>> when omitted, else <<scope>>
ClearTargets == {<<>>, <<"global">>, <<"workspace">>}

\* The inputs of callers that run concurrently.
RaceDocuments == {Kai}

RaceBatches == {<<Kai, Projects>>}

RaceQueries == {<<"a">>}

RaceOptions == {Opt("scope", <<"workspace">>)}

RaceTargets == {<<>>, <<"workspace">>}

\* A file one character longer than the budget, and a query that differs
\* from it in that character only.
Long ==
    [id |-> "project:README.md", content |-> Append(FullBudget, "y"),
     scope |-> "project", scopeId |-> <<"p">>]

LongDocuments == {Long}

LongBatches == {<<Long>>, <<Long, Projects>>}

LongQueries == {Append(FullBudget, "z")}

LongOptions == {Opt("scope", <<"project">>)}

LongTargets == {<<>>}

\* parseInt of a string of decimal digits
DigitValue(d) ==
    CASE d = "0" -> 0 [] d = "1" -> 1 [] d = "2" -> 2 [] d = "3" -> 3 [] d = "4" -> 4
      [] d = "5" -> 5 [] d = "6" -> 6 [] d = "7" -> 7 [] d = "8" -> 8 [] d = "9" -> 9

RECURSIVE ParseInt(_)
ParseInt(digits) ==
    IF Len(digits) = 1 THEN DigitValue(digits[1])
    ELSE 10 * ParseInt(SubSeq(digits, 1, Len(digits) - 1)) + DigitValue(digits[Len(digits)])

\* searchParams.get(name): the value, or null when the parameter is missing
ParamOrNull(params, name) == IF name \in DOMAIN params THEN params[name] ELSE Null

\* GET /api/search: the options the handler passes to search. scope is
\* whatever get('scope') returned, null included; scopeId is left out when
\* missing or empty; limit is always given.
GetOptions(params) ==
    ("scope" :> ParamOrNull(params, "scope"))
    @@ (IF "scopeId" \in DOMAIN params /\ params.scopeId # <<>>
        THEN "scopeId" :> params.scopeId ELSE <<>>)
    @@ ("limit" :> ParseInt(IF "limit" \in DOMAIN params THEN params.limit
                            ELSE <<"1", "0">>))

\* POST /api/search: const {query, scope, scopeId, limit = 10, minScore = 0.5}
\* = body, passed on as {scope, scopeId, limit, minScore}; an undefined
\* property is an omitted one to search's destructuring.
PostOptions(body) ==
    Opt("scope", IF "scope" \in DOMAIN body THEN <<body.scope>> ELSE <<>>)
    @@ Opt("scopeId", IF "scopeId" \in DOMAIN body THEN <<body.scopeId>> ELSE <<>>)
    @@ ("limit" :> IF "limit" \in DOMAIN body THEN body.limit ELSE 10)
    @@ ("minScore" :> IF "minScore" \in DOMAIN body THEN body.minScore ELSE 5)

\* The query strings and bodies of the requests.
GetParams ==
    {Opt("scope", sc) @@ Opt("scopeId", id) @@ Opt("limit", lim) :
        sc \in {<<>>, <<"workspace">>, <<"all">>},
        id \in {<<>>, <<<<"kai">>>>},
        lim \in {<<>>, <<<<"2">>>>}}

PostBodies ==
    {Opt("scope", sc) @@ Opt("limit", lim) :
        sc \in {<<>>, <<"global">>},
        lim \in {<<>>, <<1>>}}

RouteOptions ==
    {GetOptions(params) : params \in GetParams} \cup {PostOptions(body) : body \in PostBodies}

\* The inputs of the caller whose reads of the database may fail.
FaultBatches == {<<Nova, Projects>>}

FaultOptions ==
    {Opt("scope", sc) @@ Opt("limit", lim) @@ Opt("minScore", ms) :
        sc \in {<<>>, <<"workspace">>},
        lim \in {<<>>, <<1>>},
        ms \in {<<>>, <<-10>>}}

FaultTargets == {<<>>}

\* The searches of the caller whose reads may never answer: all scopes, or one.
HangOptions == {<<>>, Opt("scope", <<"workspace">>)}

\* A file of another workspace with the same text as Kai's.
Twin ==
    [id |-> "nova:AGENTS.md", content |-> <<"a">>, scope |-> "workspace",
     scopeId |-> <<"nova">>]

\* The inputs of the caller that indexes files of equal text.
TwinDocuments == {Kai, Twin, Nova}

TwinBatches == {<<Kai, Twin>>}

TwinQueries == {<<"a">>, <<"c">>}

TwinOptions ==
    {Opt("scope", <<"workspace">>) @@ Opt("scopeId", id) @@ Opt("limit", lim)
        @@ Opt("minScore", ms) :
        id \in {<<>>, <<<<"kai">>>>},
        lim \in {<<>>, <<1>>, <<2>>},
        ms \in {<<>>, <<-10>>, <<9>>}}

TwinTargets == {<<"workspace">>}

\* -------------------------------------------------------------- call state

Idle ==
    [op |-> "none", pc |-> "idle", docs |-> <<>>, query |-> <<>>, options |-> <<>>,
     target |-> <<>>, scopes |-> <<>>, embeddings |-> <<>>, found |-> FALSE,
     listed |-> <<>>, pending |-> <<>>, results |-> <<>>, warned |-> <<>>,
     embedCalls |-> 0, error |-> "none", ret |-> <<>>]

\* A caller makes one call at a time.
CanCall(p) == proc[p].pc = "idle"

\* The call ends normally with value v.
Returns(c, v) == [c EXCEPT !.pc = "done", !.ret = v]

\* The call ends with error e thrown to its caller.
Throws(c, e) == [c EXCEPT !.pc = "done", !.error = e]

\* The scope getTable is being asked for.
CurrentScope(c) == Head(c.scopes)

\* The database directory outlives the process: it is empty, or holds what an
\* earlier run of the dashboard indexed.
InitialDatabases ==
    {<<>>,
     "memory_workspace" :> <<SeedRow("workspace"), Record(Kai, EmbedOne(Kai.content))>>}

Init ==
    /\ openai \in BOOLEAN
    /\ tables \in InitialDatabases
    /\ proc = [p \in Procs |-> Idle]

\* ------------------------------------------------------------------ getTable

\* tables.includes(tableName), on the list tableNames() returned
Includes(names, tableName) == tableName \in Range(names)

\* database.createTable(tableName, [seed]) in its default mode: it makes the
\* table, holding the seed row, and fails when the name is taken.
CreateTable(tbls, tableName, scope) == With(tbls, tableName, <<SeedRow(scope)>>)

\* const tables = await database.tableNames(); tables.includes(tableName)
GetTableNames(p) ==
    LET c == proc[p] IN
    /\ c.pc = "tableNames"
    /\ proc' = [proc EXCEPT ![p] =
            [c EXCEPT !.found = Includes(TableNames(tables), TableName(CurrentScope(c))),
                      !.pc = "openOrCreate"]]
    /\ UNCHANGED <<openai, tables>>

\* --------------------------------------------------------------------- search

\* const { scope = 'all', scopeId, limit = 10, minScore = 0.5 } = options
OptionOr(options, key, default) ==
    IF key \in DOMAIN options THEN options[key] ELSE default

SearchLimit(options) == OptionOr(options, "limit", DefaultLimit)

SearchMinScore(options) == OptionOr(options, "minScore", DefaultMinScore)

\* scope === 'all' ? ['global', 'project', 'workspace', 'cross'] : [scope]
SearchScopes(options) ==
    LET scope == OptionOr(options, "scope", "all")
    IN  IF scope = "all" THEN AllScopes ELSE <<scope>>

\* if (scopeId) searchQuery = searchQuery.where(`scopeId = '${scopeId}'`):
\* an omitted scopeId and the empty string are both falsy.
ScopeIdFilter(options) ==
    IF "scopeId" \in DOMAIN options /\ options.scopeId # <<>>
    THEN <<WhereClause(options.scopeId)>>
    ELSE <<>>

\* 1 - (result._distance || 0), in tenths
ScoreOf(hit) == 10 - (IF "_distance" \in DOMAIN hit THEN hit._distance ELSE 0)

\* Seeded fault: the threshold is applied to the distance, not to the score.
QualifiesByDistance(score, minScore) == 10 - score >= minScore

\* Seeded fault: the comparison is the wrong way round.
QualifiesAtMost(score, minScore) == score <= minScore

\* if (score >= minScore)
Qualifies(score, minScore) == score >= minScore

\* The SearchResult pushed for a hit.
SearchResult(hit) ==
    [document |-> [f \in DOMAIN hit \ {"vector", "_distance"} |-> hit[f]],
     score |-> ScoreOf(hit),
     snippet |-> SliceFrom0(hit.content, SnippetChars)]

\* The results the inner loop pushes for the hits of one scope.
Pushed(hits, minScore) ==
    LET all == [i \in 1..Len(hits) |-> SearchResult(hits[i])]
    IN  SelectSeq(all, LAMBDA r : Qualifies(r.score, minScore))

\* Insert r into a list kept in descending score, after equal scores
\* (Array.prototype.sort is stable).
RECURSIVE InsertByScore(_, _)
InsertByScore(r, sorted) ==
    IF sorted = <<>> THEN <<r>>
    ELSE IF r.score > Head(sorted).score THEN <<r>> \o sorted
    ELSE <<Head(sorted)>> \o InsertByScore(r, Tail(sorted))

\* results.sort((a, b) => b.score - a.score)
RECURSIVE SortByScore(_)
SortByScore(results) ==
    IF results = <<>> THEN <<>>
    ELSE InsertByScore(results[Len(results)],
                       SortByScore(SubSeq(results, 1, Len(results) - 1)))

\* Seeded fault: the merged list is returned whole.
Unlimited(results, limit) == results

\* .slice(0, limit)
Limited(results, limit) == SliceFrom0(results, limit)

\* Seeded fault: the merged list is cut before it is ranked.
SearchReturnUnsorted(results, limit) == Limited(results, limit)

\* The value search returns.
SearchReturn(results, limit) == Limited(SortByScore(results), limit)

\* End of one iteration of `for (const s of scopes)`: on to the next scope's
\* getTable, or out of the loop to the return statement.
SearchNextScope(c) ==
    IF Len(c.scopes) > 1
    THEN [c EXCEPT !.scopes = Tail(c.scopes), !.pc = "tableNames"]
    ELSE Returns([c EXCEPT !.scopes = <<>>],
                 SearchReturn(c.results, SearchLimit(c.options)))

\* Seeded fault: the loop body has no try/catch, so the error of one scope
\* ends the call.
SearchRethrown(c, e) == Throws(c, e)

\* catch (e) { console.warn(`Search in scope ${s} failed:`, e) }
SearchCaught(c, e) ==
    SearchNextScope([c EXCEPT !.warned = Append(c.warned, <<CurrentScope(c), e>>)])

\* An error thrown to the running call: search catches it inside its loop,
\* the other functions have no handler.
Thrown(c, e) == IF c.op = "search" THEN SearchCaught(c, e) ELSE Throws(c, e)

\* getTable returned a handle: the caller goes on to use it.
GotTable(c) == [c EXCEPT !.pc = IF c.op = "search" THEN "query" ELSE "add"]

\* if (tables.includes(tableName)) return database.openTable(tableName)
\* return database.createTable(tableName, [{id: 'init', ...}])
GetTableOpenOrCreate(p) ==
    LET c == proc[p]
        tableName == TableName(CurrentScope(c))
    IN
    /\ c.pc = "openOrCreate"
    /\ IF c.found
       THEN /\ proc' = [proc EXCEPT ![p] =
                    IF tableName \in DOMAIN tables THEN GotTable(c)
                    ELSE Thrown(c, "TableNotFound")]
            /\ UNCHANGED tables
       ELSE IF tableName \in DOMAIN tables
       THEN /\ proc' = [proc EXCEPT ![p] = Thrown(c, "TableAlreadyExists")]
            /\ UNCHANGED tables
       ELSE /\ tables' = CreateTable(tables, tableName, CurrentScope(c))
            /\ proc' = [proc EXCEPT ![p] = GotTable(c)]
    /\ UNCHANGED openai

\* Seeded fault: a failed provider call is made a second time.
SearchEmbeddedRetried(c, ok) ==
    IF NotConfigured THEN Throws(c, "OpenAI API key not configured")
    ELSE [c EXCEPT !.embedCalls = @ + (IF ok THEN 1 ELSE 2),
                   !.embeddings = <<EmbedOne(c.query)>>,
                   !.scopes = SearchScopes(c.options),
                   !.pc = "tableNames"]

\* const queryEmbedding = await generateEmbedding(query); ok is whether the
\* provider answers.
SearchEmbedded(c, ok) ==
    IF NotConfigured THEN Throws(c, "OpenAI API key not configured")
    ELSE IF ~ok THEN Throws([c EXCEPT !.embedCalls = @ + 1], "UpstreamError")
    ELSE [c EXCEPT !.embedCalls = @ + 1,
                   !.embeddings = <<EmbedOne(c.query)>>,
                   !.scopes = SearchScopes(c.options),
                   !.pc = "tableNames"]

SearchCall(p, query, options) ==
    /\ CanCall(p)
    /\ proc' = [proc EXCEPT ![p] =
            [Idle EXCEPT !.op = "search", !.pc = "embed", !.query = query,
                         !.options = options]]
    /\ UNCHANGED <<openai, tables>>

SearchEmbed(p, ok) ==
    /\ proc[p].op = "search"
    /\ proc[p].pc = "embed"
    /\ proc' = [proc EXCEPT ![p] = SearchEmbedded(proc[p], ok)]
    /\ UNCHANGED <<openai, tables>>

\* await searchQuery.toArray() and the loop over its rows
SearchQuery(p) ==
    LET c == proc[p]
        tableName == TableName(CurrentScope(c))
        where == ScopeIdFilter(c.options)
    IN
    /\ c.op = "search"
    /\ c.pc = "query"
    /\ proc' = [proc EXCEPT ![p] =
            IF tableName \notin DOMAIN tables THEN SearchCaught(c, "TableNotFound")
            ELSE IF QueryFails(where) THEN SearchCaught(c, "InvalidFilter")
            ELSE LET hits == VectorSearch(tables[tableName], c.embeddings[1],
                                          SearchLimit(c.options), where)
                 IN  SearchNextScope([c EXCEPT !.results =
                        @ \o Pushed(hits, SearchMinScore(c.options))])]
    /\ UNCHANGED <<openai, tables>>

\* await searchQuery.toArray() rejects: the table's files cannot be read.
SearchStoreError(p) ==
    LET c == proc[p] IN
    /\ c.op = "search"
    /\ c.pc = "query"
    /\ proc' = [proc EXCEPT ![p] = SearchCaught(c, "StoreError")]
    /\ UNCHANGED <<openai, tables>>

\* await searchQuery.toArray() never settles: the call waits at its await
\* for ever, no timer being set anywhere in search.
SearchStoreHangs(p) ==
    LET c == proc[p] IN
    /\ c.op = "search"
    /\ c.pc = "query"
    /\ proc' = [proc EXCEPT ![p] = [c EXCEPT !.pc = "hung"]]
    /\ UNCHANGED <<openai, tables>>

\* The results search pushes over the given scopes when it runs on the
\* database tbls with no other call in between and no scope fails; getTable
\* creates a missing table with its seed row.
RECURSIVE SearchOver(_, _, _, _)
SearchOver(tbls, scopes, v, options) ==
    IF scopes = <<>> THEN <<>>
    ELSE LET tableName == TableName(Head(scopes))
             rows == IF tableName \in DOMAIN tbls THEN tbls[tableName]
                     ELSE <<SeedRow(Head(scopes))>>
             where == ScopeIdFilter(options)
             hits == IF QueryFails(where) THEN <<>>
                     ELSE VectorSearch(rows, v, SearchLimit(options), where)
         IN  Pushed(hits, SearchMinScore(options))
                \o SearchOver(tbls, Tail(scopes), v, options)

\* What search(query, options) returns in that case.
SearchValue(tbls, query, options) ==
    SearchReturn(SearchOver(tbls, SearchScopes(options), EmbedOne(query), options),
                 SearchLimit(options))

\* ------------------------------------------------------------------- indexing

\* table.add(records)
TableAdd(tbls, tableName, records) == [tbls EXCEPT ![tableName] = @ \o records]

DocsOfScope(docs, scope) == SelectSeq(docs, LAMBDA d : d.scope = scope)

\* Object.entries(byScope): the scopes in the order they first occur in docs
RECURSIVE ScopesInOrder(_)
ScopesInOrder(docs) ==
    IF docs = <<>> THEN <<>>
    ELSE LET before == ScopesInOrder(SubSeq(docs, 1, Len(docs) - 1))
             scope == docs[Len(docs)].scope
         IN  IF scope \in Range(before) THEN before ELSE Append(before, scope)

\* Callers stop indexing into a table that would grow beyond MaxRows.
RoomFor(docs) ==
    \A scope \in Range(ScopesInOrder(docs)) :
        LET held == IF TableName(scope) \in DOMAIN tables
                    THEN Len(tables[TableName(scope)]) ELSE 1
        IN  held + Len(DocsOfScope(docs, scope)) <= MaxRows

\* const embedding = await generateEmbedding(doc.content)
IndexDocumentEmbedded(c, ok) ==
    IF NotConfigured THEN Throws(c, "OpenAI API key not configured")
    ELSE IF ~ok THEN Throws([c EXCEPT !.embedCalls = @ + 1], "UpstreamError")
    ELSE [c EXCEPT !.embedCalls = @ + 1,
                   !.embeddings = <<EmbedOne(c.docs[1].content)>>,
                   !.pc = "tableNames"]

IndexDocumentCall(p, doc) ==
    /\ CanCall(p)
    /\ RoomFor(<<doc>>)
    /\ proc' = [proc EXCEPT ![p] =
            [Idle EXCEPT !.op = "indexDocument", !.pc = "embed", !.docs = <<doc>>,
                         !.scopes = <<doc.scope>>]]
    /\ UNCHANGED <<openai, tables>>

IndexDocumentEmbed(p, ok) ==
    /\ proc[p].op = "indexDocument"
    /\ proc[p].pc = "embed"
    /\ proc' = [proc EXCEPT ![p] = IndexDocumentEmbedded(proc[p], ok)]
    /\ UNCHANGED <<openai, tables>>

\* await table.add([{...doc, vector: embedding}])
IndexDocumentAdd(p) ==
    LET c == proc[p]
        tableName == TableName(CurrentScope(c))
    IN
    /\ c.op = "indexDocument"
    /\ c.pc = "add"
    /\ IF tableName \in DOMAIN tables
       THEN /\ tables' = TableAdd(tables, tableName, <<Record(c.docs[1], c.embeddings[1])>>)
            /\ proc' = [proc EXCEPT ![p] = Returns(c, <<>>)]
       ELSE /\ proc' = [proc EXCEPT ![p] = Throws(c, "TableNotFound")]
            /\ UNCHANGED tables
    /\ UNCHANGED openai

\* Seeded fault: generateEmbeddings calls the provider without looking at the
\* client first.
IndexDocumentsEmbeddedUnchecked(c, ok) ==
    LET scopeDocs == DocsOfScope(c.docs, CurrentScope(c))
        texts == [i \in 1..Len(scopeDocs) |-> scopeDocs[i].content]
    IN  IF ~ok THEN Throws([c EXCEPT !.embedCalls = @ + 1], "UpstreamError")
        ELSE [c EXCEPT !.embedCalls = @ + 1,
                       !.embeddings = EmbedAll(texts),
                       !.pc = "tableNames"]

\* Seeded fault: a failed embedding is swallowed and the partition is written
\* with zero vectors.
IndexDocumentsEmbeddedSwallowed(c, ok) ==
    LET scopeDocs == DocsOfScope(c.docs, CurrentScope(c))
        texts == [i \in 1..Len(scopeDocs) |-> scopeDocs[i].content]
    IN  IF NotConfigured THEN Throws(c, "OpenAI API key not configured")
        ELSE [c EXCEPT !.embedCalls = @ + 1,
                       !.embeddings = IF ok THEN EmbedAll(texts)
                                      ELSE [i \in 1..Len(texts) |-> ZeroVector],
                       !.pc = "tableNames"]

\* const embeddings = await generateEmbeddings(scopeDocs.map(d => d.content))
IndexDocumentsEmbedded(c, ok) ==
    LET scopeDocs == DocsOfScope(c.docs, CurrentScope(c))
        texts == [i \in 1..Len(scopeDocs) |-> scopeDocs[i].content]
    IN  IF NotConfigured THEN Throws(c, "OpenAI API key not configured")
        ELSE IF ~ok THEN Throws([c EXCEPT !.embedCalls = @ + 1], "UpstreamError")
        ELSE [c EXCEPT !.embedCalls = @ + 1,
                       !.embeddings = EmbedAll(texts),
                       !.pc = "tableNames"]

\* if (docs.length === 0) return; otherwise group by scope and start the loop
IndexDocumentsCalled(docs) ==
    IF Len(docs) = 0 THEN Returns([Idle EXCEPT !.op = "indexDocuments"], <<>>)
    ELSE [Idle EXCEPT !.op = "indexDocuments", !.pc = "embed", !.docs = docs,
                      !.scopes = ScopesInOrder(docs)]

IndexDocumentsCall(p, docs) ==
    /\ CanCall(p)
    /\ RoomFor(docs)
    /\ proc' = [proc EXCEPT ![p] = IndexDocumentsCalled(docs)]
    /\ UNCHANGED <<openai, tables>>

IndexDocumentsEmbed(p, ok) ==
    /\ proc[p].op = "indexDocuments"
    /\ proc[p].pc = "embed"
    /\ proc' = [proc EXCEPT ![p] = IndexDocumentsEmbedded(proc[p], ok)]
    /\ UNCHANGED <<openai, tables>>

\* Seeded fault: the vectors are zipped onto the documents back to front.
RecordsReversed(scopeDocs, embeddings) ==
    [i \in 1..Len(scopeDocs) |->
        Record(scopeDocs[i], embeddings[Len(scopeDocs) + 1 - i])]

\* scopeDocs.map((doc, i) => ({...doc, vector: embeddings[i]}))
Records(scopeDocs, embeddings) ==
    [i \in 1..Len(scopeDocs) |-> Record(scopeDocs[i], embeddings[i])]

\* await table.add(records), then the next entry of byScope
IndexDocumentsAdd(p) ==
    LET c == proc[p]
        tableName == TableName(CurrentScope(c))
        scopeDocs == DocsOfScope(c.docs, CurrentScope(c))
    IN
    /\ c.op = "indexDocuments"
    /\ c.pc = "add"
    /\ IF tableName \in DOMAIN tables
       THEN /\ tables' = TableAdd(tables, tableName, Records(scopeDocs, c.embeddings))
            /\ proc' = [proc EXCEPT ![p] =
                    IF Len(c.scopes) > 1
                    THEN [c EXCEPT !.scopes = Tail(c.scopes), !.pc = "embed"]
                    ELSE Returns(c, <<>>)]
       ELSE /\ proc' = [proc EXCEPT ![p] = Throws(c, "TableNotFound")]
            /\ UNCHANGED tables
    /\ UNCHANGED openai

\* ----------------------------------------------------------------- clearIndex

\* Seeded fault: the scope argument is ignored.
ClearMatchesAny(tableName, target) == TRUE

\* Seeded fault: the `!scope ||` alternative is missing.
ClearMatchesGivenScope(tableName, target) ==
    target # <<>> /\ tableName = TableName(target[1])

\* tableName.startsWith('memory_') && (!scope || tableName === `memory_${scope}`);
\* every table of the model is a memory_ table.
ClearMatches(tableName, target) ==
    target = <<>> \/ tableName = TableName(target[1])

ClearIndexCall(p, target) ==
    /\ CanCall(p)
    /\ proc' = [proc EXCEPT ![p] =
            [Idle EXCEPT !.op = "clearIndex", !.pc = "list", !.target = target]]
    /\ UNCHANGED <<openai, tables>>

\* const tables = await database.tableNames(), and the loop up to its first
\* dropTable
ClearIndexList(p) ==
    LET c == proc[p]
        listed == TableNames(tables)
        pending == SelectSeq(listed, LAMBDA n : ClearMatches(n, c.target))
    IN
    /\ c.op = "clearIndex"
    /\ c.pc = "list"
    /\ proc' = [proc EXCEPT ![p] =
            IF pending = <<>> THEN Returns([c EXCEPT !.listed = listed], <<>>)
            ELSE [c EXCEPT !.listed = listed, !.pending = pending, !.pc = "drop"]]
    /\ UNCHANGED <<openai, tables>>

\* await database.dropTable(tableName), and the loop up to the next one
ClearIndexDrop(p) ==
    LET c == proc[p]
        tableName == Head(c.pending)
    IN
    /\ c.op = "clearIndex"
    /\ c.pc = "drop"
    /\ IF tableName \in DOMAIN tables
       THEN /\ tables' = Without(tables, tableName)
            /\ proc' = [proc EXCEPT ![p] =
                    IF Len(c.pending) > 1 THEN [c EXCEPT !.pending = Tail(c.pending)]
                    ELSE Returns([c EXCEPT !.pending = <<>>], <<>>)]
       ELSE /\ proc' = [proc EXCEPT ![p] = Throws(c, "TableNotFound")]
            /\ UNCHANGED tables
    /\ UNCHANGED openai

\* The caller that awaited the call takes its value or its error, and is free
\* to call again.
Settle(p) ==
    /\ proc[p].pc = "done"
    /\ proc' = [proc EXCEPT ![p] = Idle]
    /\ UNCHANGED <<openai, tables>>

\* ------------------------------------------------------------------- getStats

RECURSIVE SumRows(_, _)
SumRows(tbls, names) ==
    IF names = <<>> THEN 0 ELSE Len(tbls[Head(names)]) + SumRows(tbls, Tail(names))

\* What getStats returns when it runs on the database tbls with no other call
\* in between (lastIndexed left out).
GetStats(tbls) ==
    [totalDocuments |-> SumRows(tbls, TableNames(tbls)),
     byScope |-> [scope \in {ScopeOfTable(n) : n \in DOMAIN tbls} |->
                     Len(tbls[TableName(scope)])]]

\* ------------------------------------------------------------- specifications

\* One step of caller p, its calls drawing their arguments from the given sets.
Step(p, documents, batches, queries, options, targets) ==
    \/ \E doc \in documents : IndexDocumentCall(p, doc)
    \/ \E ok \in BOOLEAN : IndexDocumentEmbed(p, ok)
    \/ IndexDocumentAdd(p)
    \/ \E docs \in batches : IndexDocumentsCall(p, docs)
    \/ \E ok \in BOOLEAN : IndexDocumentsEmbed(p, ok)
    \/ IndexDocumentsAdd(p)
    \/ \E q \in queries, o \in options : SearchCall(p, q, o)
    \/ \E ok \in BOOLEAN : SearchEmbed(p, ok)
    \/ SearchQuery(p)
    \/ GetTableNames(p)
    \/ GetTableOpenOrCreate(p)
    \/ \E t \in targets : ClearIndexCall(p, t)
    \/ ClearIndexList(p)
    \/ ClearIndexDrop(p)
    \/ Settle(p)

\* Callers running concurrently.
Next == \E p \in Procs : Step(p, RaceDocuments, RaceBatches, RaceQueries, RaceOptions, RaceTargets)

Spec == Init /\ [][Next]_vars

\* One caller, whose calls therefore never overlap.
NextSeq == Step("p1", Documents, Batches, Queries, SearchOptions, ClearTargets)

SpecSeq == Init /\ [][NextSeq]_vars

\* One caller, on a database whose reads may fail.
NextFault ==
    \/ Step("p1", Documents, FaultBatches, Queries, FaultOptions, FaultTargets)
    \/ SearchStoreError("p1")

SpecFault == Init /\ [][NextFault]_vars

\* One caller, indexing files of equal text.
NextTwin == Step("p1", TwinDocuments, TwinBatches, TwinQueries, TwinOptions, TwinTargets)

SpecTwin == Init /\ [][NextTwin]_vars

\* One caller, on a database whose reads may never answer.
NextHang ==
    \/ Step("p1", RaceDocuments, RaceBatches, RaceQueries, HangOptions, FaultTargets)
    \/ SearchStoreHangs("p1")

\* A search is at the await of toArray().
AwaitsRows(p) == proc[p].op = "search" /\ proc[p].pc = "query"

\* The event loop resumes a call whose awaited promise settles: getTable's
\* awaits always settle, and toArray() settles unless it has hung. The last
\* conjunct is the weak fairness of the steps that leave the await of
\* toArray(), written by their enabling condition AwaitsRows.
SpecHang ==
    /\ Init
    /\ [][NextHang]_vars
    /\ WF_vars(GetTableNames("p1"))
    /\ WF_vars(GetTableOpenOrCreate("p1"))
    /\ []<>(~AwaitsRows("p1"))

\* One caller, indexing and searching texts longer than the budget.
NextLong == Step("p1", LongDocuments, LongBatches, LongQueries, LongOptions, LongTargets)

SpecLong == Init /\ [][NextLong]_vars

\* One caller that indexes and clears, and one that only searches.
NextPair ==
    \/ Step("p1", RaceDocuments, RaceBatches, {}, {}, RaceTargets)
    \/ Step("p2", {}, {}, RaceQueries, RaceOptions, {})

SpecPair == Init /\ [][NextPair]_vars

\* One caller, whose searches arrive through the /api/search route.
NextRoutes == Step("p1", RaceDocuments, RaceBatches, Queries, RouteOptions, ClearTargets)

SpecRoutes == Init /\ [][NextRoutes]_vars

\* --------------------------------------------------------------------- claims

\* The minScore and limit a search call runs with.
MinScoreInEffect(c) == IF "minScore" \in DOMAIN c.options THEN c.options.minScore ELSE 5

LimitInEffect(c) == IF "limit" \in DOMAIN c.options THEN c.options.limit ELSE 10

Finished(c, op) == c.op = op /\ c.pc = "done"

\* C1: when callers race on the first access to a scope, none of them is
\* refused because another caller created the store first: no call ends with,
\* and no search notes, the "table already exists" error of createTable.
C1_SingleCreation ==
    \A p \in Procs :
        /\ proc[p].error # "TableAlreadyExists"
        /\ \A i \in 1..Len(proc[p].warned) : proc[p].warned[i][2] # "TableAlreadyExists"

\* C2: a search of scope 'workspace' with a scopeId X (a non-empty string)
\* returns only documents whose scopeId is X.
C2_ScopeIsolation ==
    \A p \in Procs :
        LET c == proc[p] IN
        ( /\ Finished(c, "search")
          /\ "scope" \in DOMAIN c.options
          /\ "scopeId" \in DOMAIN c.options
          /\ c.options.scope = "workspace"
          /\ c.options.scopeId # <<>> )
        => \A i \in 1..Len(c.ret) :
              /\ "scopeId" \in DOMAIN c.ret[i].document
              /\ c.ret[i].document.scopeId = c.options.scopeId

\* C3: every result search returns has a score of at least the minScore in
\* effect (0.5 when omitted).
C3_ScoreAtLeastMinScore ==
    \A p \in Procs :
        LET c == proc[p] IN
        Finished(c, "search") =>
            \A i \in 1..Len(c.ret) : c.ret[i].score >= MinScoreInEffect(c)

\* C3 happens: a search with the default threshold returned results and left
\* out rows of the table it searched.
C3_Witness ==
    \E p \in Procs :
        LET c == proc[p] IN
        /\ Finished(c, "search")
        /\ DOMAIN c.options = {"scope"}
        /\ c.options.scope = "workspace"
        /\ c.ret # <<>>
        /\ "memory_workspace" \in DOMAIN tables
        /\ Len(c.ret) < Len(tables["memory_workspace"])

\* C4: the list search returns is in non-increasing score order and has at
\* most `limit` elements (10 when omitted).
C4_SortedAndLimited ==
    \A p \in Procs :
        LET c == proc[p] IN
        Finished(c, "search") =>
            /\ Len(c.ret) <= LimitInEffect(c)
            /\ \A i \in 1..Len(c.ret) : \A j \in 1..Len(c.ret) :
                  i < j => c.ret[i].score >= c.ret[j].score

\* C4 happens: an all-scope search collected more matches than its limit, not
\* in score order, and returned `limit` of them.
C4_Witness ==
    \E p \in Procs :
        LET c == proc[p] IN
        /\ Finished(c, "search")
        /\ c.error = "none"
        /\ "scope" \notin DOMAIN c.options
        /\ "limit" \in DOMAIN c.options
        /\ c.options.limit = 2
        /\ Len(c.results) > 2
        /\ \E i \in 1..(Len(c.results) - 1) : c.results[i].score < c.results[i + 1].score
        /\ Len(c.ret) = 2
        /\ c.ret[1].score > c.ret[2].score

\* C5: a search of one scope whose store did not exist returns the empty list
\* and no error.
C5_EmptyScopeSafety ==
    \A p \in Procs :
        LET c == proc[p] IN
        ( /\ Finished(c, "search")
          /\ "scope" \in DOMAIN c.options
          /\ c.embedCalls = 1 /\ c.error = "none"
          /\ ~c.found )
        => c.ret = <<>>

\* C6: after indexDocuments succeeds for N documents of one scope, whose store
\* it had to create and beside which no other store exists, getStats reports
\* byScope[scope] = N and totalDocuments = N.
C6_StatsConsistency ==
    \A p \in Procs :
        LET c == proc[p] IN
        ( /\ Finished(c, "indexDocuments")
          /\ c.error = "none"
          /\ Len(ScopesInOrder(c.docs)) = 1
          /\ ~c.found
          /\ DOMAIN tables = {TableName(c.docs[1].scope)} )
        => /\ GetStats(tables).byScope[c.docs[1].scope] = Len(c.docs)
           /\ GetStats(tables).totalDocuments = Len(c.docs)

\* byScope of getStats without the entry of one scope.
OtherScopes(tbls, scope) ==
    LET byScope == GetStats(tbls).byScope
    IN  [x \in DOMAIN byScope \ {scope} |-> byScope[x]]

\* C7: after clearIndex(s) the byScope of getStats has no key s, and every
\* other scope has a key exactly when it had one before, with the same count:
\* the call ends with s gone and with the other stores it listed, and none of
\* its steps changes the entry of another scope.
C7_ClearScope ==
    /\ [](\A p \in Procs :
            LET c == proc[p] IN
            (Finished(c, "clearIndex") /\ c.error = "none" /\ c.target # <<>>)
            => /\ c.target[1] \notin DOMAIN GetStats(tables).byScope
               /\ DOMAIN GetStats(tables).byScope =
                    {ScopeOfTable(n) : n \in Range(c.listed)} \ {c.target[1]})
    /\ [][\A p \in Procs :
            (proc[p].op = "clearIndex" /\ proc[p].target # <<>>)
            => OtherScopes(tables', proc[p].target[1]) =
               OtherScopes(tables, proc[p].target[1])]_vars

\* C7 happens: clearIndex('workspace') dropped the workspace store while the
\* global store held documents.
C7_Witness ==
    \E p \in Procs :
        LET c == proc[p] IN
        /\ Finished(c, "clearIndex")
        /\ c.target = <<"workspace">>
        /\ "memory_workspace" \in Range(c.listed)
        /\ "memory_global" \in DOMAIN tables
        /\ Len(tables["memory_global"]) >= 2

\* C8: after clearIndex() with no argument no store exists: getStats reports
\* totalDocuments = 0 and an empty byScope.
C8_ClearAll ==
    \A p \in Procs :
        LET c == proc[p] IN
        (Finished(c, "clearIndex") /\ c.error = "none" /\ c.target = <<>>)
        => /\ DOMAIN tables = {}
           /\ GetStats(tables).totalDocuments = 0
           /\ DOMAIN GetStats(tables).byScope = {}

\* C8 happens: clearIndex() ended after listing several stores.
C8_Witness ==
    \E p \in Procs :
        LET c == proc[p] IN
        /\ Finished(c, "clearIndex")
        /\ c.error = "none"
        /\ c.target = <<>>
        /\ Len(c.listed) >= 3

IsIndexing(c) == c.op \in {"indexDocument", "indexDocuments"}

\* C9 as stated: without a credential every indexDocument and indexDocuments
\* call fails with the configuration error.
C9_AlwaysConfigurationError ==
    \A p \in Procs :
        LET c == proc[p] IN
        (NotConfigured /\ IsIndexing(c) /\ c.pc = "done")
        => c.error = "OpenAI API key not configured"

\* C9 amended: without a credential every indexDocument call, and every
\* indexDocuments call given at least one document, fails with the
\* configuration error before any provider call; and no step of an indexing
\* call changes the database.
C9_ConfigurationError ==
    /\ [](\A p \in Procs :
            LET c == proc[p] IN
            (NotConfigured /\ IsIndexing(c) /\ c.pc = "done" /\ Len(c.docs) > 0)
            => /\ c.error = "OpenAI API key not configured"
               /\ c.embedCalls = 0)
    /\ [](\A p \in Procs :
            (NotConfigured /\ IsIndexing(proc[p])) => proc[p].embedCalls = 0)
    /\ [][(NotConfigured /\ \E p \in Procs : IsIndexing(proc[p]))
            => tables' = tables]_vars

\* C9 happens: with no credential and a store on disk, an indexDocuments call
\* for two documents has failed.
C9_Witness ==
    \E p \in Procs :
        LET c == proc[p] IN
        /\ NotConfigured
        /\ Finished(c, "indexDocuments")
        /\ Len(c.docs) = 2
        /\ c.error = "OpenAI API key not configured"
        /\ "memory_workspace" \in DOMAIN tables

\* C10: in indexDocuments a partition whose embedding fails is not written:
\* the failing step ends the call with the error and leaves the database as
\* it is, and a call is past the embedding of a partition only with one
\* vector for each of its documents.
C10_NoWriteWithoutEmbedding ==
    /\ [](\A p \in Procs :
            LET c == proc[p] IN
            (c.op = "indexDocuments" /\ c.pc \in {"tableNames", "openOrCreate", "add"})
            => /\ c.error = "none"
               /\ Len(c.embeddings) = Len(DocsOfScope(c.docs, CurrentScope(c))))
    /\ [][\A p \in Procs :
            IndexDocumentsEmbed(p, FALSE)
            => /\ tables' = tables
               /\ proc'[p].pc = "done"
               /\ proc'[p].error # "none"]_vars

\* C10 happens: the embedding of the second partition of a batch failed after
\* the first was written, and the second scope's store does not exist.
C10_Witness ==
    \E p \in Procs :
        LET c == proc[p] IN
        /\ Finished(c, "indexDocuments")
        /\ c.error = "UpstreamError"
        /\ Len(ScopesInOrder(c.docs)) = 2
        /\ Len(c.scopes) = 1
        /\ TableName(CurrentScope(c)) \notin DOMAIN tables
        /\ TableName(ScopesInOrder(c.docs)[1]) \in DOMAIN tables

\* The store of scope holds a record of every document of docs.
HoldsAll(tbls, scope, docs) ==
    /\ TableName(scope) \in DOMAIN tbls
    /\ \A i \in 1..Len(docs) :
        \E j \in 1..Len(tbls[TableName(scope)]) :
            tbls[TableName(scope)][j] = Record(docs[i], EmbedOne(docs[i].content))

\* C11: when the provider call of one partition of an indexDocuments batch
\* has failed, every other partition of the batch has all its records in its
\* store when the call ends, wherever the failing partition stands in the
\* batch.
C11_PartitionIsolation ==
    \A p \in Procs :
        LET c == proc[p] IN
        (Finished(c, "indexDocuments") /\ c.error = "UpstreamError")
        => \A scope \in Range(ScopesInOrder(c.docs)) \ {CurrentScope(c)} :
            HoldsAll(tables, scope, DocsOfScope(c.docs, scope))

\* The scopes a search call has given up on.
FailedScopes(c) == {c.warned[i][1] : i \in 1..Len(c.warned)}

\* C12: once its query is embedded a search never fails; when the read of
\* one scope's store has failed, nothing of that scope is in its results, and
\* it returns what the scopes that did not fail hold, sorted and limited.
C12_ScopeErrorIsolation ==
    \A p \in Procs :
        LET c == proc[p]
            others == SelectSeq(SearchScopes(c.options),
                                LAMBDA s : s \notin FailedScopes(c))
        IN
        /\ (c.op = "search" /\ c.embeddings # <<>>) => c.error = "none"
        /\ (c.op = "search" /\ c.warned # <<>>)
           => /\ \A i \in 1..Len(c.results) :
                    c.results[i].document.scope \notin FailedScopes(c)
              /\ c.pc = "done"
                 => c.ret = SearchReturn(SearchOver(tables, others, EmbedOne(c.query),
                                                    c.options),
                                         SearchLimit(c.options))

\* C12 happens: a search over all scopes has ended normally after the read
\* of one scope failed, and returns a document of another scope.
C12_Witness ==
    \E p \in Procs :
        LET c == proc[p] IN
        /\ Finished(c, "search")
        /\ Len(SearchScopes(c.options)) > 1
        /\ Len(c.warned) = 1
        /\ c.error = "none"
        /\ c.ret # <<>>
        /\ \E i \in 1..Len(c.ret) : c.ret[i].document.id # "init"

\* The options of a search with minScore replaced by m.
AtMinScore(options, m) == ("minScore" :> m) @@ options

\* C13: a search that has ended returned what a search of the database as it
\* now is returns, and for the same query, scope, scopeId and limit a search
\* with a higher minScore returns no more results than it, one with a lower
\* minScore no fewer.
C13_ThresholdMonotonicity ==
    \A p \in Procs :
        LET c == proc[p] IN
        (Finished(c, "search") /\ c.error = "none")
        => /\ c.ret = SearchValue(tables, c.query, c.options)
           /\ \A m \in {-10, 0, 5, 9, 10} :
                LET other == SearchValue(tables, c.query, AtMinScore(c.options, m))
                IN  /\ m >= SearchMinScore(c.options) => Len(other) <= Len(c.ret)
                    /\ m <= SearchMinScore(c.options) => Len(other) >= Len(c.ret)

\* C13 happens: a search with minScore 0.9 returned a result, and the same
\* search with minScore -1 returns more.
C13_Witness ==
    \E p \in Procs :
        LET c == proc[p] IN
        /\ Finished(c, "search")
        /\ c.error = "none"
        /\ SearchMinScore(c.options) = 9
        /\ Len(c.ret) > 0
        /\ Len(SearchValue(tables, c.query, AtMinScore(c.options, -10))) > Len(c.ret)

\* The rows of the searched store that are indexed documents with the text
\* of the query and that the scopeId filter of the call, if any, keeps.
SameText(c) ==
    LET rows == tables[TableName(c.options.scope)]
    IN  {j \in 1..Len(rows) :
            /\ rows[j].id # "init"
            /\ rows[j].content = c.query
            /\ "scopeId" \in DOMAIN c.options => rows[j].scopeId = c.options.scopeId}

\* The document of row j of the searched store is in the returned list, with
\* a score that is at least the threshold.
ReturnsRow(c, j) ==
    \E i \in 1..Len(c.ret) :
        /\ c.ret[i].document.id = tables[TableName(c.options.scope)][j].id
        /\ c.ret[i].score >= SearchMinScore(c.options)

\* A search of one scope with a minScore of at most 0.9 has ended normally.
SearchedOneScope(c) ==
    /\ Finished(c, "search")
    /\ c.error = "none"
    /\ c.warned = <<>>
    /\ "scope" \in DOMAIN c.options
    /\ SearchMinScore(c.options) <= 9

C15_EmptyBatchCount ==
    \A p \in Procs :
        LET c == proc[p] IN
        (Finished(c, "indexDocuments") /\ c.docs = <<>>)
        => /\ c.error = "none"
           /\ c.embedCalls = 0
           /\ c.ret = [count |-> 0]

\* The documents of the partitions an indexDocuments call got through before
\* the one it is at.
ProcessedDocs(c) ==
    SelectSeq(c.docs, LAMBDA d : d.scope \notin Range(c.scopes))

\* C16: an indexDocuments call that ends on the failure of a partition after
\* it has written another ends with the value {count: n}, n the number of
\* documents of the partitions it wrote.
C16_PartialCount ==
    \A p \in Procs :
        LET c == proc[p] IN
        (Finished(c, "indexDocuments") /\ c.error # "none" /\ ProcessedDocs(c) # <<>>)
        => c.ret = [count |-> Len(ProcessedDocs(c))]

\* C17: every result a search returns has a score between 0 and 1.
C17_ScoreInUnitInterval ==
    \A p \in Procs :
        LET c == proc[p] IN
        Finished(c, "search")
        => \A i \in 1..Len(c.ret) : c.ret[i].score >= 0 /\ c.ret[i].score <= 10

\* C18: no store holds two rows with the same id.
C18_UniqueIds ==
    \A tableName \in DOMAIN tables :
        \A i, j \in 1..Len(tables[tableName]) :
            tables[tableName][i].id = tables[tableName][j].id => i = j

\* C19: a clearIndex call never fails for want of the store it is to drop,
\* be the store missing from the start or dropped by another call since this
\* one listed the tables.
C19_ClearMissingIsNoOp ==
    \A p \in Procs :
        Finished(proc[p], "clearIndex") => proc[p].error = "none"

\* C20: a search makes at most one provider call and embeds only once; past
\* the embedding it has made exactly one call and holds the one vector of
\* its query for all its scopes; and when the embedding fails the call ends
\* there with the error, having looked at no store, the database unchanged
\* then and until the caller takes the error.
C20_EmbedOnce ==
    /\ [](\A p \in Procs :
            LET c == proc[p] IN
            c.op = "search"
            => /\ c.embedCalls <= 1
               /\ (c.pc # "embed" /\ c.error = "none")
                    => /\ c.embedCalls = 1
                       /\ c.embeddings = <<EmbedOne(c.query)>>
               /\ c.error # "none"
                    => /\ c.pc = "done"
                       /\ c.embeddings = <<>>
                       /\ c.results = <<>>
                       /\ c.warned = <<>>
                       /\ c.scopes = <<>>)
    /\ [][\A p \in Procs :
            /\ SearchEmbed(p, FALSE)
               => /\ tables' = tables
                  /\ proc'[p].pc = "done"
                  /\ proc'[p].error # "none"
            /\ (proc[p].op = "search" /\ proc[p].pc # "embed")
               => /\ ~(proc'[p].op = "search" /\ proc'[p].pc = "embed")
                  /\ proc'[p].embedCalls <= proc[p].embedCalls
            /\ (proc[p].op = "search" /\ proc[p].error # "none")
               => tables' = tables]_vars

\* C20 happens: a search over all scopes has ended with the provider's error
\* after one call, and the database is still empty.
C20_Witness ==
    \E p \in Procs :
        LET c == proc[p] IN
        /\ Finished(c, "search")
        /\ "scope" \notin DOMAIN c.options
        /\ c.error = "UpstreamError"
        /\ c.embedCalls = 1
        /\ tables = <<>>

\* C21: no step of a search call creates a store or changes the rows of one.
C21_SearchCreatesNoStore ==
    [][(\E p \in Procs : proc[p].op = "search" /\ proc[p].pc # "done")
        => tables' = tables]_vars

\* C22: a store that a step creates is empty: creating it leaves no row
\* behind that is not a caller's document.
C22_NoSeedRecord ==
    [][\A tableName \in DOMAIN tables' \ DOMAIN tables :
        tables'[tableName] = <<>>]_vars

\* The ids of the model's rows, in ascending (code unit) order.
IdsAscending ==
    <<"global:PROJECTS.md", "init", "kai:MEMORY.md", "nova:AGENTS.md", "nova:MEMORY.md">>

IdRank(id) == CHOOSE i \in 1..Len(IdsAscending) : IdsAscending[i] = id

\* C23: results of equal score are returned in ascending order of
\* document.id.
C23_TiesById ==
    \A p \in Procs :
        LET c == proc[p] IN
        Finished(c, "search")
        => \A i, j \in 1..Len(c.ret) :
            (i < j /\ c.ret[i].score = c.ret[j].score)
            => IdRank(c.ret[i].document.id) <= IdRank(c.ret[j].document.id)

\* The score of a stored row for the query of call c.
RowScore(c, row) == 10 - Distance(EmbedOne(c.query), row.vector)

\* The rows <<scope, j>> of the searched scopes that the scopeId filter of
\* call c keeps and whose score is at least its minScore.
QualifyingRows(c) ==
    LET where == ScopeIdFilter(c.options) IN
    {q \in UNION {{<<s, j>> : j \in 1..Len(tables[TableName(s)])} :
                    s \in {s \in Range(SearchScopes(c.options)) :
                            TableName(s) \in DOMAIN tables}} :
        LET row == tables[TableName(q[1])][q[2]] IN
        /\ where = <<>> \/ EvalWhere(where[1], 1, row) = "true"
        /\ RowScore(c, row) >= SearchMinScore(c.options)}

\* C24: the list a search returns is the top `limit` by score of the
\* qualifying rows of all its scopes: each result is a qualifying row, and
\* for every score x the list holds as many results of score >= x as the
\* limit allows among the qualifying rows of score >= x (so all of them
\* when fewer than `limit` qualify).
C24_GlobalTopLimit ==
    \A p \in Procs :
        LET c == proc[p]
            rowOf(q) == tables[TableName(q[1])][q[2]]
        IN
        (Finished(c, "search") /\ c.error = "none" /\ c.warned = <<>>)
        => /\ \A i \in 1..Len(c.ret) :
                \E q \in QualifyingRows(c) :
                    /\ rowOf(q).id = c.ret[i].document.id
                    /\ RowScore(c, rowOf(q)) = c.ret[i].score
           /\ \A x \in {RowScore(c, rowOf(q)) : q \in QualifyingRows(c)} :
                Cardinality({i \in 1..Len(c.ret) : c.ret[i].score >= x})
                    = Min(SearchLimit(c.options),
                          Cardinality({q \in QualifyingRows(c) :
                                        RowScore(c, rowOf(q)) >= x}))

\* C24 happens: a search over all scopes returned a document although more
\* rows qualified than its limit, in more than one scope.
C24_Witness ==
    \E p \in Procs :
        LET c == proc[p] IN
        /\ Finished(c, "search")
        /\ c.error = "none"
        /\ c.warned = <<>>
        /\ "scope" \notin DOMAIN c.options
        /\ Cardinality(QualifyingRows(c)) > SearchLimit(c.options)
        /\ Cardinality({q[1] : q \in QualifyingRows(c)}) > 1
        /\ \E i \in 1..Len(c.ret) : c.ret[i].document.id # "init"

\* The partition an indexDocuments call is at.
CurrentDocs(c) == DocsOfScope(c.docs, CurrentScope(c))

\* C25: indexDocuments makes one provider call per partition, whose i-th
\* vector is that of the i-th document of the partition; each partition is
\* written by one add that appends, in order, each of its documents with its
\* own vector; and no row of a store carries the vector of another text.
C25_OneCallOneWritePerPartition ==
    /\ [](\A p \in Procs :
            LET c == proc[p] IN
            c.op = "indexDocuments"
            => /\ c.pc \in {"tableNames", "openOrCreate", "add"}
                    => /\ c.embedCalls = Len(ScopesInOrder(c.docs)) - Len(c.scopes) + 1
                       /\ c.embeddings = [i \in 1..Len(CurrentDocs(c)) |->
                                            EmbedOne(CurrentDocs(c)[i].content)]
               /\ (c.pc = "done" /\ c.error = "none")
                    => c.embedCalls = Len(ScopesInOrder(c.docs)))
    /\ [](\A tableName \in DOMAIN tables :
            \A i \in 1..Len(tables[tableName]) :
                LET row == tables[tableName][i] IN
                row.id # "init" => row.vector = EmbedOne(row.content))
    /\ [][\A p \in Procs :
            (IndexDocumentsAdd(p) /\ tables' # tables)
            => LET c == proc[p]
                   written == [i \in 1..Len(CurrentDocs(c)) |->
                                [vector |-> EmbedOne(CurrentDocs(c)[i].content)]
                                    @@ CurrentDocs(c)[i]]
               IN  tables' = [tables EXCEPT ![TableName(CurrentScope(c))] = @ \o written]]_vars

\* C25 happens: a batch of two documents of one scope with different texts
\* was indexed with one provider call, and the store ends with the two.
C25_Witness ==
    \E p \in Procs :
        LET c == proc[p]
            rows == tables["memory_workspace"]
        IN
        /\ Finished(c, "indexDocuments")
        /\ c.error = "none"
        /\ c.docs = <<Kai, Nova>>
        /\ c.embedCalls = 1
        /\ "memory_workspace" \in DOMAIN tables
        /\ Len(rows) = 3
        /\ rows[2].id = Kai.id /\ rows[3].id = Nova.id

\* C26: a search whose query has been embedded eventually ends, returning
\* what the scopes that answered hold, also when the read of one scope never
\* completes.
C26_SearchEventuallyReturns ==
    \A p \in Procs :
        (proc[p].op = "search" /\ proc[p].embeddings # <<>>)
            ~> (proc[p].op = "search" /\ proc[p].pc = "done")

IsPrefix(s, t) == Len(s) <= Len(t) /\ SubSeq(t, 1, Len(s)) = s

\* C27: no step removes part of the rows of a store: a store that a step
\* does not remove keeps all its rows, in place; a drop of clearIndex
\* removes one whole store that its scope argument selects and touches no
\* other; and every store holds its seed row followed by whole records.
C27_ClearAtomicPerScope ==
    /\ [][\A tableName \in DOMAIN tables :
            \/ tableName \notin DOMAIN tables'
            \/ IsPrefix(tables[tableName], tables'[tableName])]_vars
    /\ [][\A p \in Procs :
            (ClearIndexDrop(p) /\ tables' # tables)
            => \E tableName \in DOMAIN tables :
                /\ ClearMatches(tableName, proc[p].target)
                /\ DOMAIN tables' = DOMAIN tables \ {tableName}
                /\ \A other \in DOMAIN tables' : tables'[other] = tables[other]]_vars
    /\ [](\A tableName \in DOMAIN tables :
            /\ Len(tables[tableName]) >= 1
            /\ tables[tableName][1] = SeedRow(ScopeOfTable(tableName))
            /\ \A i \in 2..Len(tables[tableName]) :
                LET row == tables[tableName][i] IN
                /\ row.id # "init"
                /\ row.vector = EmbedOne(row.content))

\* C27 happens: a clearIndex() over two listed stores has failed midway,
\* another call having dropped a store first, and the store that is left
\* holds all its rows.
C27_Witness ==
    \E p \in Procs :
        LET c == proc[p] IN
        /\ Finished(c, "clearIndex")
        /\ c.target = <<>>
        /\ Len(c.listed) = 2
        /\ c.error = "TableNotFound"
        /\ \E tableName \in DOMAIN tables : Len(tables[tableName]) >= 2

\* The prefix of text of length min(length, 32000).
BudgetPrefix(text) == [i \in 1..Min(Len(text), MaxEmbedChars) |-> text[i]]

\* The texts of the calls in progress and of the rows stored.
TextsInUse ==
    UNION {{proc[p].query} \cup {proc[p].docs[i].content : i \in 1..Len(proc[p].docs)} :
            p \in Procs}
    \cup UNION {{tables[n][i].content : i \in 1..Len(tables[n])} : n \in DOMAIN tables}

\* C28: the text sent for an input is its prefix of min(length, 32000)
\* characters, in generateEmbedding and generateEmbeddings alike: every
\* stored vector and every query vector is the provider's vector of that
\* prefix, a batch of one text gets the vector the single call gets, and
\* truncating twice is truncating once.
C28_SameTruncation ==
    /\ \A text \in TextsInUse :
        /\ Truncated(text) = BudgetPrefix(text)
        /\ Truncated(Truncated(text)) = Truncated(text)
        /\ EmbedAll(<<text>>) = <<EmbedOne(text)>>
        /\ EmbedOne(text) = EmbeddingModel(BudgetPrefix(text))
    /\ \A n \in DOMAIN tables :
        \A i \in 1..Len(tables[n]) :
            tables[n][i].id # "init"
            => tables[n][i].vector = EmbeddingModel(BudgetPrefix(tables[n][i].content))
    /\ \A p \in Procs :
        LET c == proc[p] IN
        /\ (c.op = "search" /\ c.embeddings # <<>>)
            => c.embeddings = <<EmbeddingModel(BudgetPrefix(c.query))>>
        /\ (c.op = "indexDocuments" /\ c.pc \in {"tableNames", "openOrCreate", "add"})
            => \A i \in 1..Len(c.embeddings) :
                c.embeddings[i] = EmbeddingModel(BudgetPrefix(
                    DocsOfScope(c.docs, CurrentScope(c))[i].content))

\* C28 happens: a file longer than the budget is stored with the vector of
\* its first 32000 characters, and a search whose query differs from it past
\* the budget only has returned it with score 1.
C28_Witness ==
    \E p \in Procs :
        LET c == proc[p] IN
        /\ Finished(c, "search")
        /\ Len(c.query) > MaxEmbedChars
        /\ \E i \in 1..Len(c.ret) :
            /\ c.ret[i].score = 10
            /\ c.ret[i].document.content # c.query
            /\ Len(c.ret[i].document.content) > MaxEmbedChars

\* C29: an indexing call that runs while another caller only searches never
\* fails on the store, and when it ends normally every record of its
\* documents is in its scope's store.
C29_SearchDoesNotBreakIndexing ==
    LET c == proc["p1"] IN
    (IsIndexing(c) /\ c.pc = "done")
    => /\ c.error \notin {"TableAlreadyExists", "TableNotFound"}
       /\ c.error = "none"
            => \A scope \in Range(ScopesInOrder(c.docs)) :
                HoldsAll(tables, scope, DocsOfScope(c.docs, scope))

\* C30: every store is the store of one of the four scopes.
C30_OnlyTheFourScopes ==
    DOMAIN tables \subseteq {TableName(scope) : scope \in Range(AllScopes)}

====
